---- MODULE Spec2Model ----
(***************************************************************************)
(* A model of synapse/lib/types.py: the TypeLib registry (addType with     *)
(* deferred resolution, isSubType and its cache, loadDataModels) and the   *)
(* multi-field types CompType, XrefType and SeprType.                      *)
(*                                                                         *)
(* A python dict is a function whose DOMAIN is the set of keys present;    *)
(* dict.get(k) is None exactly when k is not in the DOMAIN.  An info       *)
(* keyword that is not given is the string "None".                         *)
(***************************************************************************)
EXTENDS Integers, Sequences, FiniteSets, TLC

VARIABLES types, typeinfo, typetree, pended, subscache, call, ncalls, batch,
          comp, xref, sepr, sub, ival, scal, mf, req

tlibvars == <<types, typeinfo, typetree, pended, subscache, call, ncalls, batch>>

\* the state of the other scenarios
auxvars == <<sub, ival, scal, mf, req>>

vars == <<types, typeinfo, typetree, pended, subscache, call, ncalls, batch,
          comp, xref, sepr, sub, ival, scal, mf, req>>

(***************************************************************************)
(* Bounds and input sets                                                   *)
(***************************************************************************)
MaxCalls == 3
MaxBatch == 2
MaxOpt == 2
MaxPairs == 2
MaxText == 5
MaxList == 4
MaxFields == 2
MaxWrites == 3
MaxDigits == 3
MaxSepText == 4
MaxNorms == 2
NumThreads == 2

BuiltinNames == {"str"}
NewNames == {"a", "b", "c"}
Names == BuiltinNames \cup NewNames
PendKeys == Names \cup {"None"}

\* 'StrType' is a class of this module; 'NoSuchCtor' is a path that
\* tryDynFunc cannot resolve; regex 'bad' is one that re.compile rejects
CtorIds == {"None", "StrType", "NoSuchCtor"}
RegexVals == {"None", "bad"}

\* the definitions given to addType: a constructor fails by its path, an
\* extend fails by its regex
Infos == {i \in [ctor : CtorIds, subof : Names \cup {"None"}, regex : RegexVals] :
             i.ctor # "None" => i.regex = "None"}

NoInfo == [ctor |-> "None", subof |-> "None", regex |-> "None"]

(***************************************************************************)
(* dict helpers                                                            *)
(***************************************************************************)
Put(f, k, v) == [x \in (DOMAIN f) \cup {k} |-> IF x = k THEN v ELSE f[x]]

Pop(f, k) == [x \in (DOMAIN f) \ {k} |-> f[x]]

EmptyDict == [x \in {} |-> x]

(***************************************************************************)
(* Type instances                                                          *)
(***************************************************************************)
\* StrType.__init__ compiles info['regex']; re.compile raises on a bad one
InitThrows(info) == info.regex = "bad"

\* tryDynFunc(ctor, ...) raises when the path does not resolve, or when the
\* class it resolves to raises
CtorThrows(info) == info.ctor = "NoSuchCtor" \/ InitThrows(info)

\* tryDynFunc(ctor, tlib, name, **info): the instance keeps its info
NewItem(cls, info) == [cls |-> cls, info |-> info]

\* DataType.extend: info.setdefault(k, v) for the parent's info
ExtendInfo(item, info) ==
    [k \in DOMAIN info |-> IF info[k] = "None" THEN item.info[k] ELSE info[k]]

(***************************************************************************)
(* TypeLib                                                                 *)
(***************************************************************************)
Tlib == [types |-> types, typeinfo |-> typeinfo, typetree |-> typetree,
         pended |-> pended, subscache |-> subscache]

RECURSIVE AddType(_, _, _)
RECURSIVE BumpEntries(_, _)

\* the loop of _bumpBasePend: every exception of addType is caught and logged
BumpEntries(t, todo) ==
    IF todo = <<>> THEN t
    ELSE BumpEntries(AddType(t, Head(todo).name, Head(todo).info).tlib, Tail(todo))

\* _bumpBasePend that pops the queue and forgets to retry it
BumpBasePendNoRetry(t, name) == [t EXCEPT !.pended[name] = <<>>]

\* _bumpBasePend: self.pended.pop(name, ()) and retry what was queued
BumpBasePend(t, name) ==
    BumpEntries([t EXCEPT !.pended[name] = <<>>], t.pended[name])

\* the second try block that records the typetree edge of a definition it
\* pends as well
AddSubTypeEdgeOnPend(t, name, info) ==
    IF info.subof \notin DOMAIN t.types
    THEN [tlib |-> [t EXCEPT !.typeinfo = Pop(@, name),
                             !.pended[info.subof] =
                                 Append(@, [name |-> name, info |-> info]),
                             !.typetree = Put(@, name, info.subof)],
          ret |-> "False"]
    ELSE LET base == t.types[info.subof]
             t1 == [t EXCEPT !.typeinfo = Put(@, name, info)]
             minfo == ExtendInfo(base, info)
         IN IF InitThrows(minfo)
            THEN [tlib |-> t1, ret |-> "ExtendError"]
            ELSE LET t2 == [t1 EXCEPT !.types =
                                Put(@, name, NewItem(base.cls, minfo))]
                     t3 == BumpBasePend(t2, name)
                 IN [tlib |-> [t3 EXCEPT !.typetree = Put(@, name, info.subof),
                                         !.subscache = EmptyDict],
                     ret |-> "True"]

\* the second try block without self.subscache.clear()
AddSubTypeNoClear(t, name, info) ==
    IF info.subof \notin DOMAIN t.types
    THEN [tlib |-> [t EXCEPT !.typeinfo = Pop(@, name),
                             !.pended[info.subof] =
                                 Append(@, [name |-> name, info |-> info])],
          ret |-> "False"]
    ELSE LET base == t.types[info.subof]
             t1 == [t EXCEPT !.typeinfo = Put(@, name, info)]
             minfo == ExtendInfo(base, info)
         IN IF InitThrows(minfo)
            THEN [tlib |-> t1, ret |-> "ExtendError"]
            ELSE LET t2 == [t1 EXCEPT !.types =
                                Put(@, name, NewItem(base.cls, minfo))]
                     t3 == BumpBasePend(t2, name)
                 IN [tlib |-> [t3 EXCEPT !.typetree = Put(@, name, info.subof)],
                     ret |-> "True"]

\* addType, from self.reqDataType(subof) on (the second try block)
AddSubType(t, name, info) ==
    IF info.subof \notin DOMAIN t.types
    THEN \* NoSuchType(name=subof): pend the definition under that name
         [tlib |-> [t EXCEPT !.typeinfo = Pop(@, name),
                             !.pended[info.subof] =
                                 Append(@, [name |-> name, info |-> info])],
          ret |-> "False"]
    ELSE LET base == t.types[info.subof]
             t1 == [t EXCEPT !.typeinfo = Put(@, name, info)]
             minfo == ExtendInfo(base, info)
         IN IF InitThrows(minfo)
            THEN [tlib |-> t1, ret |-> "ExtendError"]
            ELSE LET t2 == [t1 EXCEPT !.types =
                                Put(@, name, NewItem(base.cls, minfo))]
                     t3 == BumpBasePend(t2, name)
                 IN [tlib |-> [t3 EXCEPT !.typetree = Put(@, name, info.subof),
                                         !.subscache = EmptyDict],
                     ret |-> "True"]

\* addType without the DupTypeName check
AddTypeNoDupCheck(t, name, info) ==
    IF info.ctor = "None" /\ info.subof = "None"
    THEN [tlib |-> t, ret |-> "Exception"]
    ELSE IF info.ctor # "None"
    THEN IF ~CtorThrows(info)
         THEN LET t1 == [t EXCEPT !.typeinfo = Put(@, name, info),
                                  !.types = Put(@, name, NewItem(info.ctor, info))]
              IN [tlib |-> BumpBasePend(t1, name), ret |-> "True"]
         ELSE AddSubType([t EXCEPT !.typeinfo = Pop(@, name)], name, info)
    ELSE AddSubType(t, name, info)

\* addType
AddType(t, name, info) ==
    IF name \in DOMAIN t.types
    THEN [tlib |-> t, ret |-> "DupTypeName"]
    ELSE IF info.ctor = "None" /\ info.subof = "None"
    THEN [tlib |-> t, ret |-> "Exception"]
    ELSE IF info.ctor # "None"
    THEN IF ~CtorThrows(info)
         THEN LET t1 == [t EXCEPT !.typeinfo = Put(@, name, info),
                                  !.types = Put(@, name, NewItem(info.ctor, info))]
              IN [tlib |-> BumpBasePend(t1, name), ret |-> "True"]
         ELSE \* except Exception: typeinfo.pop(name); control falls through
              AddSubType([t EXCEPT !.typeinfo = Pop(@, name)], name, info)
    ELSE AddSubType(t, name, info)

RECURSIVE LoadDataModels(_, _)
\* loadDataModels: addType for every entry, an exception is logged and skipped
LoadDataModels(t, modtups) ==
    IF modtups = <<>> THEN t
    ELSE LoadDataModels(AddType(t, Head(modtups).name, Head(modtups).info).tlib,
                        Tail(modtups))

RECURSIVE WalkTree(_, _)
WalkTree(tree, todo) ==
    IF todo \in DOMAIN tree THEN <<tree[todo]>> \o WalkTree(tree, tree[todo])
    ELSE <<>>

Reverse(s) == [i \in 1..Len(s) |-> s[Len(s) + 1 - i]]

\* getTypeBases: the names from the root down to name
GetTypeBases(tree, name) == Reverse(<<name>> \o WalkTree(tree, name))

Range(s) == {s[i] : i \in DOMAIN s}

\* the result of getTypeInfo: what it returned and the names whose
\* definitions it read, in order; "NoReturn" when the loop never ends
InfoResult(ret, seen) == [ret |-> ret, seen |-> seen]

RECURSIVE InfoWalk(_, _, _, _, _)
\* the while loop of getTypeInfo; a name met a second time is met for ever
InfoWalk(t, todo, prop, defval, seen) ==
    IF todo = "None" THEN InfoResult(defval, seen)
    ELSE IF todo \in Range(seen) THEN InfoResult("NoReturn", seen)
    ELSE IF todo \notin DOMAIN t.typeinfo THEN InfoResult(defval, seen)
    ELSE LET info == t.typeinfo[todo]
         IN IF info[prop] # "None"
            THEN InfoResult(info[prop], Append(seen, todo))
            ELSE InfoWalk(t, info.subof, prop, defval, Append(seen, todo))

\* getTypeInfo
GetTypeInfo(t, name, prop, defval) == InfoWalk(t, name, prop, defval, <<>>)

\* isSubType: the cached answer when there is one, else a walk that is cached
IsSubTypeCall(t, name, base) ==
    LET key == <<name, base>>
    IN IF key \in DOMAIN t.subscache
       THEN [tlib |-> t, ret |-> t.subscache[key]]
       ELSE LET ret == base \in Range(GetTypeBases(t.typetree, name))
            IN [tlib |-> [t EXCEPT !.subscache = Put(@, key, ret)], ret |-> ret]

(***************************************************************************)
(* CompType                                                                *)
(*                                                                         *)
(* A field name is its rank in alphabetical order.  An element of an input *)
(* list is a plain value (k = "val") or a (key, value) pair (k = "pair");  *)
(* values are texts.  A normalized value is an integer or a guid.          *)
(***************************************************************************)
FieldNames == {1, 2}
FieldTypes == {"guid", "int"}
RawVals == {"1", "0x1", "*"}
FreshGuids == {"g1", "g2"}

Val(v) == [k |-> "val", key |-> 0, v |-> v]
Pair(key, v) == [k |-> "pair", key |-> key, v |-> v]

IntNV(n) == [t |-> "int", i |-> n, g |-> ""]
GuidNV(g, pos) == [t |-> "guid", i |-> pos, g |-> g]

Ok(nv) == [err |-> "None", nv |-> nv]
Raise(err) == [err |-> err, nv |-> IntNV(0)]

\* int(valu, 0) on the texts of RawVals; any other text is a ValueError
ParseInt == [v \in {"1", "0x1"} |-> 1]

\* IntType.norm of the base 'int' type (no min, no max, no oldval)
IntNorm(e) ==
    IF e.k = "val" /\ e.v \in DOMAIN ParseInt THEN Ok(IntNV(ParseInt[e.v]))
    ELSE Raise("BadTypeValu")

\* GuidType.norm of the base 'guid' type: '*' is s_common.guid(), a fresh
\* random guid (rnd, told apart by the position it is generated for); no
\* text of RawVals is a 32 digit guid
GuidNorm(e, rnd, pos) ==
    IF e.k = "val" /\ e.v = "*" THEN Ok(GuidNV(rnd, pos))
    ELSE Raise("BadTypeValu")

\* getTypeNorm for the builtin types 'int' and 'guid'; reqDataType raises
\* NoSuchType for a name that is not registered
GetTypeNorm(tname, e, rnd, pos) ==
    IF tname = "int" THEN IntNorm(e)
    ELSE IF tname = "guid" THEN GuidNorm(e, rnd, pos)
    ELSE Raise("NoSuchType")

TypeRank == [t \in FieldTypes |-> IF t = "guid" THEN 1 ELSE 2]

\* the order of python tuples (name, tname)
FieldLess(a, b) ==
    \/ a.name < b.name
    \/ a.name = b.name /\ TypeRank[a.tname] < TypeRank[b.tname]

\* CompType.__init__: the fields as declared, the optfields sorted
CompInit(fields, optfields) ==
    [fields |-> fields, optfields |-> SortSeq(optfields, FieldLess)]

RECURSIVE MkDict(_, _)
\* opts[k] = v for every pair in order: the last value of a key wins
MkDict(d, pairs) ==
    IF pairs = <<>> THEN d
    ELSE MkDict(Put(d, Head(pairs).key, Head(pairs).v), Tail(pairs))

RECURSIVE NormReq(_, _, _, _)
\* the loop over the required fields: one result per field, in order
NormReq(vals, fields, rnd, pos) ==
    IF vals = <<>> \/ fields = <<>> THEN <<>>
    ELSE <<[name |-> Head(fields).name, opt |-> FALSE,
            r |-> GetTypeNorm(Head(fields).tname, Head(vals), rnd, pos)]>>
         \o NormReq(Tail(vals), Tail(fields), rnd, pos + 1)

RECURSIVE NormOptsInputOrder(_, _, _, _)
\* the optional values normalized in the order the pairs were given
NormOptsInputOrder(optfields, pairs, rnd, pos) ==
    IF pairs = <<>> THEN <<>>
    ELSE LET decl == {i \in DOMAIN optfields : optfields[i].name = Head(pairs).key}
         IN (IF decl = {} THEN <<>>
             ELSE LET f == optfields[CHOOSE i \in decl : TRUE]
                  IN <<[name |-> f.name, opt |-> TRUE,
                        r |-> GetTypeNorm(f.tname, Val(Head(pairs).v), rnd, pos)]>>)
            \o NormOptsInputOrder(optfields, Tail(pairs), rnd, pos + 1)

RECURSIVE NormOpts(_, _, _, _)
\* the loop over self.optfields: a field that opts does not hold is skipped
NormOpts(optfields, pairs, rnd, pos) ==
    IF optfields = <<>> THEN <<>>
    ELSE LET opts == MkDict(EmptyDict, pairs)
             f == Head(optfields)
         IN (IF f.name \notin DOMAIN opts THEN <<>>
             ELSE <<[name |-> f.name, opt |-> TRUE,
                     r |-> GetTypeNorm(f.tname, Val(opts[f.name]), rnd, pos)]>>)
            \o NormOpts(Tail(optfields), pairs, rnd, pos + 1)

RECURSIVE MkSubs(_, _)
\* subs[name] = norm for every normalized field, in order
MkSubs(d, rs) ==
    IF rs = <<>> THEN d
    ELSE MkSubs(Put(d, Head(rs).name, Head(rs).r.nv), Tail(rs))

CompResult(err, retn, subs) == [err |-> err, iden |-> retn, subs |-> subs]

\* CompType._norm_list.  s_common.guid(retn) is a digest of retn: the
\* identifier is retn itself.
CompNormList(c, valu, rnd) ==
    LET fsize == Len(c.fields)
        vlen == Len(valu)
    IN IF vlen < fsize THEN CompResult("BadTypeValu", <<>>, EmptyDict)
       ELSE LET rest == SubSeq(valu, fsize + 1, vlen)
            IN IF \E i \in DOMAIN rest : rest[i].k # "pair"
               THEN \* for k, v in valu[self.fsize:] cannot unpack a text
                    CompResult("ValueError", <<>>, EmptyDict)
               ELSE LET rs == NormReq(SubSeq(valu, 1, fsize), c.fields, rnd, 1)
                              \o NormOpts(c.optfields, rest, rnd, fsize + 1)
                        bad == {i \in DOMAIN rs : rs[i].r.err # "None"}
                    IN IF bad # {}
                       THEN CompResult(rs[CHOOSE i \in bad :
                                              \A j \in bad : i <= j].r.err,
                                       <<>>, EmptyDict)
                       ELSE CompResult("None",
                                [i \in DOMAIN rs |->
                                    [name |-> IF rs[i].opt THEN rs[i].name ELSE 0,
                                     norm |-> rs[i].r.nv]],
                                MkSubs(EmptyDict, rs))

Seqs(S, n) == UNION {[1..m -> S] : m \in 0..n}

FieldDecls == [name : FieldNames, tname : FieldTypes]

\* the composite types: at most one required field
CompTypes == {CompInit(f, o) : f \in Seqs(FieldDecls, 1), o \in Seqs(FieldDecls, MaxOpt)}

PairSeqs == Seqs({Pair(k, v) : k \in FieldNames, v \in RawVals}, MaxPairs)

ValSeqs == Seqs({Val(v) : v \in RawVals}, 1)

Shuffles(s) ==
    {[i \in DOMAIN s |-> s[p[i]]] : p \in Permutations(DOMAIN s)}

NoComp == [phase |-> "none", ctype |-> CompInit(<<>>, <<>>), vals |-> <<>>,
           pairs1 |-> <<>>, pairs2 |-> <<>>,
           r1 |-> CompResult("None", <<>>, EmptyDict),
           r2 |-> CompResult("None", <<>>, EmptyDict)]


(***************************************************************************)
(* XrefType                                                                *)
(*                                                                         *)
(* A text is a sequence of tokens: "|" is the separator, "str" the name of *)
(* a registered type, "x" some other character, "G" 32 hex digits.  The    *)
(* parts of a list, and of a split text, are texts.                        *)
(***************************************************************************)
Tokens == {"|", "str", "x", "G"}
TokLen == [k \in Tokens |-> IF k = "G" THEN 32 ELSE IF k = "str" THEN 3 ELSE 1]

RECURSIVE TextLen(_)
\* len(text)
TextLen(text) ==
    IF text = <<>> THEN 0 ELSE TokLen[Head(text)] + TextLen(Tail(text))

RECURSIVE Split(_, _)
\* text.split(sep): the texts between the separators, empty ones included
Split(text, sep) ==
    IF \A i \in DOMAIN text : text[i] # sep THEN <<text>>
    ELSE LET i == CHOOSE j \in DOMAIN text :
                      text[j] = sep /\ \A k \in 1..(j - 1) : text[k] # sep
         IN <<SubSeq(text, 1, i - 1)>>
            \o Split(SubSeq(text, i + 1, Len(text)), sep)

XrefResult(err, iden, subs) == [err |-> err, iden |-> iden, subs |-> subs]

\* reqDataType(name).norm(valu) for a text: only 'str' is registered for
\* these texts, and the base StrType returns the text as it is
XrefTypeNorm(tlibtypes, tname, valu) ==
    IF Len(tname) = 1 /\ tname[1] \in DOMAIN tlibtypes
    THEN [err |-> "None", norm |-> valu]
    ELSE [err |-> "NoSuchType", norm |-> <<>>]

\* XrefType._norm_list
XrefNormList(tlibtypes, sorc, valu) ==
    IF Len(valu) # 3
    THEN \* self._raiseBadValu(text, ...): no name 'text' is in scope here
         XrefResult("NameError", <<>>, <<>>)
    ELSE LET v == XrefTypeNorm(tlibtypes, sorc, valu[1])
             t == XrefTypeNorm(tlibtypes, valu[2], valu[3])
         IN IF v.err # "None" THEN XrefResult(v.err, <<>>, <<>>)
            ELSE IF t.err # "None" THEN XrefResult(t.err, <<>>, <<>>)
            ELSE XrefResult("None", <<v.norm, valu[2], t.norm>>,
                            <<v.norm, valu[2], t.norm>>)

GuidLen == 32

\* XrefType._norm_str: a bare guid goes to the guid type ("G" is one, in
\* lower case already)
XrefNormStr(tlibtypes, sorc, text) ==
    IF TextLen(text) = GuidLen /\ \A i \in DOMAIN text : text[i] # "|"
    THEN IF text = <<"G">> THEN XrefResult("None", text, <<>>)
         ELSE XrefResult("BadTypeValu", <<>>, <<>>)
    ELSE XrefNormList(tlibtypes, sorc, Split(text, "|"))

\* XrefType.norm: the input is a text or a list of texts
XrefNormValu(tlibtypes, sorc, valu) ==
    IF valu.isstr THEN XrefNormStr(tlibtypes, sorc, valu.text)
    ELSE XrefNormList(tlibtypes, sorc, valu.list)

\* the source type of an xref type: source='name,str', or no source given
XrefSources == {<<"str">>, <<"None">>}

XrefTexts == UNION {[1..n -> Tokens] : n \in 0..MaxText}

XrefParts == {<<>>, <<"x">>, <<"str">>}

XrefLists == UNION {[1..n -> XrefParts] : n \in 0..MaxList}

XrefInputs ==
    {[isstr |-> TRUE, text |-> t, list |-> <<>>] : t \in XrefTexts}
    \cup {[isstr |-> FALSE, text |-> <<>>, list |-> l] : l \in XrefLists}

NoXref == [phase |-> "none", sorc |-> <<"None">>,
           valu |-> [isstr |-> FALSE, text |-> <<>>, list |-> <<>>],
           res |-> XrefResult("None", <<>>, <<>>)]

(***************************************************************************)
(* SeprType                                                                *)
(*                                                                         *)
(* One SeprType instance declared with names= and types= of flen fields,   *)
(* used by several threads.  self.fields is None (0) or a reference to a   *)
(* list object; lists[r] is the content of list object r.  A field is its  *)
(* position in the declaration; its type is a registered scalar type whose *)
(* norm and repr return the part as it is.                                 *)
(***************************************************************************)
Threads == 1..NumThreads

NoThread == [pc |-> "idle", isstr |-> FALSE, cont |-> "none", i |-> 0,
             ref |-> 0, nparts |-> 0, idx |-> 0, out |-> <<>>, err |-> "None"]

NoSepr == [flen |-> 0, fields |-> 0, lists |-> <<>>,
           th |-> [t \in Threads |-> NoThread]]

Min(a, b) == IF a < b THEN a ELSE b

\* text.split(sep, maxsplit) of a text that holds nsep separators: the
\* number of parts (a negative maxsplit splits at every separator)
SplitCount(nsep, maxsplit) ==
    IF maxsplit < 0 THEN nsep + 1 ELSE Min(nsep, maxsplit) + 1

\* what norm returns for a list of flen parts, or for a text with flen - 1
\* separators, when no other thread runs: one (part, field) pair per field
SeprAlone(flen) == [i \in 1..flen |-> <<i, i>>]

(***************************************************************************)
(* isSubType running beside addType                                        *)
(*                                                                         *)
(* One thread registers sub-types, the others call isSubType.  Every       *)
(* access to a dict of the registry is one step.                           *)
(***************************************************************************)
NoReader == [pc |-> "idle", name |-> "None", base |-> "None", todo |-> "None",
             done |-> <<>>, ret |-> FALSE, quiet |-> FALSE]

NoWriter == [pc |-> "idle", name |-> "None", subof |-> "None"]

NoSub == [w |-> NoWriter, rd |-> [t \in Threads |-> NoReader]]

(***************************************************************************)
(* Scalar values and texts                                                 *)
(*                                                                         *)
(* A text is a sequence of characters.  A value given to norm is an        *)
(* integer, a text, or None.                                               *)
(***************************************************************************)
IntV(n) == [k |-> "int", n |-> n, s |-> <<>>]
StrV(text) == [k |-> "str", n |-> 0, s |-> text]
NoneV == [k |-> "none", n |-> 0, s |-> <<>>]

Return(v) == [err |-> "None", v |-> v]
BadValu == [err |-> "BadTypeValu", v |-> NoneV]

HexChars == <<"0", "1", "2", "3", "4", "5", "6", "7", "8", "9",
              "a", "b", "c", "d", "e", "f">>

UpperHex == <<"A", "B", "C", "D", "E", "F">>

\* the value of a digit character, 16 when it is not one
DigitOf(c) ==
    IF \E i \in 1..16 : HexChars[i] = c
    THEN (CHOOSE i \in 1..16 : HexChars[i] = c) - 1
    ELSE IF \E i \in 1..6 : UpperHex[i] = c
    THEN (CHOOSE i \in 1..6 : UpperHex[i] = c) + 9
    ELSE 16

RECURSIVE ValueOf(_, _, _)
ValueOf(digs, base, acc) ==
    IF digs = <<>> THEN acc
    ELSE ValueOf(Tail(digs), base, acc * base + DigitOf(Head(digs)))

AllDigits(digs, base) == \A i \in DOMAIN digs : DigitOf(digs[i]) < base

\* int(text, 0): an optional sign, then 0x, 0o or 0b and digits of that
\* base, or decimal digits without a leading zero, or zeros
IntOfText(text) ==
    LET signed == text # <<>> /\ text[1] \in {"-", "+"}
        body == IF signed THEN Tail(text) ELSE text
        sign == IF signed /\ text[1] = "-" THEN 0 - 1 ELSE 1
        prefixed == Len(body) >= 2 /\ body[1] = "0"
                        /\ body[2] \in {"x", "X", "o", "O", "b", "B"}
        base == IF ~prefixed THEN 10
                ELSE IF body[2] \in {"x", "X"} THEN 16
                ELSE IF body[2] \in {"o", "O"} THEN 8 ELSE 2
        digs == IF prefixed THEN SubSeq(body, 3, Len(body)) ELSE body
        ok == /\ digs # <<>>
              /\ AllDigits(digs, base)
              /\ (~prefixed /\ digs[1] = "0") => \A i \in DOMAIN digs : digs[i] = "0"
    IN IF ok THEN [ok |-> TRUE, n |-> sign * ValueOf(digs, base, 0)]
       ELSE [ok |-> FALSE, n |-> 0]

RECURSIVE DigitsOf(_, _)
DigitsOf(n, base) ==
    IF n < base THEN <<HexChars[n + 1]>>
    ELSE DigitsOf(n \div base, base) \o <<HexChars[(n % base) + 1]>>

\* fmt % valu for the formats '%d' and '%x'
Format(fmt, n) ==
    LET base == IF fmt = "%x" THEN 16 ELSE 10
    IN IF n < 0 THEN <<"-">> \o DigitsOf(0 - n, base) ELSE DigitsOf(n, base)

(***************************************************************************)
(* IntType                                                                 *)
(***************************************************************************)
\* an optional integer: None is the empty sequence, n is <<n>>
NoInt == <<>>

\* the info of the builtin 'int' type: no option is given
IntInfo == [fmt |-> "None", min |-> NoInt, max |-> NoInt,
            ismin |-> FALSE, ismax |-> FALSE]

\* addType('int:min', subof='int', ismin=1), addType('int:max', subof='int',
\* ismax=1): extend overlays the option on the info of 'int'
IntTypes == [int |-> IntInfo,
             intmin |-> [IntInfo EXCEPT !.ismin = TRUE],
             intmax |-> [IntInfo EXCEPT !.ismax = TRUE]]

\* IntType.__init__ that takes max for ismin and min for ismax
MinMaxSwapped(info) ==
    IF info.ismin THEN "max" ELSE IF info.ismax THEN "min" ELSE "None"

\* IntType.__init__: self.minmax is min, max or None
MinMaxOf(info) ==
    IF info.ismin THEN "min" ELSE IF info.ismax THEN "max" ELSE "None"

\* IntType.norm(valu, oldval)
IntTypeNorm(info, valu, oldval) ==
    LET parsed == IF valu.k = "str" THEN IntOfText(valu.s)
                  ELSE [ok |-> valu.k = "int", n |-> valu.n]
        mm == MinMaxOf(info)
        n == IF oldval # NoInt /\ mm = "min" /\ oldval[1] < parsed.n THEN oldval[1]
             ELSE IF oldval # NoInt /\ mm = "max" /\ oldval[1] > parsed.n
             THEN oldval[1]
             ELSE parsed.n
    IN IF ~parsed.ok THEN BadValu
       ELSE IF info.min # NoInt /\ n < info.min[1] THEN BadValu
       ELSE IF info.max # NoInt /\ n > info.max[1] THEN BadValu
       ELSE Return(IntV(n))

\* IntType.repr with a hexadecimal format
IntTypeReprHex(info, n) == Format("%x", n)

\* IntType.repr: self.fmt % valu, the format is '%d' unless fmt= is given
IntTypeRepr(info, n) == Format(IF info.fmt = "None" THEN "%d" ELSE info.fmt, n)

Texts(chars, n) == UNION {[1..m -> chars] : m \in 0..n}

\* the values that are written: integers, texts that int() accepts
\* ('0xf', '-9'), texts that it refuses, and None
WriteInputs ==
    {IntV(n) : n \in (0 - 2)..2}
        \cup {StrV(t) : t \in {<<"0", "x", "f">>, <<"-", "9">>, <<"0", "9">>, <<"x">>}}
        \cup {NoneV}

NoIval == [tname |-> "None", stored |-> NoInt, writes |-> <<>>, err |-> "None"]

(***************************************************************************)
(* StrType, BoolType, GuidType, TagType                                    *)
(***************************************************************************)
UpperChars == <<"A", "B", "C", "D", "E", "F", "G", "N", "O", "S", "T", "Y">>
LowerChars == <<"a", "b", "c", "d", "e", "f", "g", "n", "o", "s", "t", "y">>

\* str.lower(), character by character
LowerChar(c) ==
    IF \E i \in DOMAIN UpperChars : UpperChars[i] = c
    THEN LowerChars[CHOOSE i \in DOMAIN UpperChars : UpperChars[i] = c]
    ELSE c

Lower(text) == [i \in DOMAIN text |-> LowerChar(text[i])]

\* "NL" is the newline character
Spaces == {" ", "NL"}

RECURSIVE LStrip(_)
LStrip(text) ==
    IF text # <<>> /\ Head(text) \in Spaces THEN LStrip(Tail(text)) ELSE text

\* str.strip()
Strip(text) == Reverse(LStrip(Reverse(LStrip(text))))

\* the characters that \w matches
WordChars ==
    Range(HexChars) \cup Range(UpperHex) \cup Range(UpperChars)
        \cup Range(LowerChars) \cup {"l", "r", "u", "m", "_"}

IsWord(seg) == seg # <<>> /\ \A i \in DOMAIN seg : seg[i] \in WordChars

\* what a pattern that ends in $ is matched against: $ matches at the end
\* of the text and before a newline that ends the text
BeforeEnd(text) ==
    IF text # <<>> /\ text[Len(text)] = "NL" THEN SubSeq(text, 1, Len(text) - 1)
    ELSE text

\* regex.match(valu) for the patterns of the builtin types
ReMatch(regex, text) ==
    LET body == BeforeEnd(text)
        segs == Split(body, ":")
        dots == Split(body, ".")
    IN CASE regex = "^[0-9a-f]+$" ->
                body # <<>> /\ \A i \in DOMAIN body : body[i] \in Range(HexChars)
         [] regex = "^([\\w]+:)*[\\w]+$" ->
                \A i \in DOMAIN segs : IsWord(segs[i])
         [] regex = "^([\\w]+:)*([\\w]+|\\*)$" ->
                /\ \A i \in 1..(Len(segs) - 1) : IsWord(segs[i])
                /\ IsWord(segs[Len(segs)]) \/ segs[Len(segs)] = <<"*">>
         [] regex = "^([\\w]+:)*[\\w]+:\\*$" ->
                /\ Len(segs) >= 2
                /\ \A i \in 1..(Len(segs) - 1) : IsWord(segs[i])
                /\ segs[Len(segs)] = <<"*">>
         [] regex = "^([\\w]+\\.)*[\\w]+$" ->
                \A i \in DOMAIN dots : IsWord(dots[i])
         [] OTHER -> TRUE

\* the info of the builtin 'str' type: no option is given
StrInfo == [lower |-> FALSE, strip |-> FALSE, regex |-> "None", frob |-> "None"]

StrNames == {"str", "syn:prop", "syn:type", "syn:glob", "str:lwr", "str:txt",
             "str:hex"}

\* the sub-types of 'str' that TypeLib.__init__ adds: extend overlays their
\* options on the info of 'str'
StrTypes ==
    [t \in StrNames |->
        CASE t = "syn:prop" -> [StrInfo EXCEPT !.lower = TRUE,
                                    !.regex = "^([\\w]+:)*([\\w]+|\\*)$"]
          [] t = "syn:type" -> [StrInfo EXCEPT !.lower = TRUE,
                                    !.regex = "^([\\w]+:)*[\\w]+$"]
          [] t = "syn:glob" -> [StrInfo EXCEPT !.lower = TRUE,
                                    !.regex = "^([\\w]+:)*[\\w]+:\\*$"]
          [] t = "str:lwr" -> [StrInfo EXCEPT !.lower = TRUE, !.strip = TRUE]
          [] t = "str:hex" -> [StrInfo EXCEPT !.lower = TRUE, !.frob = "%x",
                                   !.regex = "^[0-9a-f]+$"]
          [] OTHER -> StrInfo]

\* StrType.norm for the options the builtin types use (no nullval, no
\* restrip, no enums)
StrTypeNorm(info, valu) ==
    LET frobbed == IF info.frob # "None" /\ valu.k = "int"
                   THEN StrV(Format(info.frob, valu.n)) ELSE valu
        lowered == IF info.lower THEN Lower(frobbed.s) ELSE frobbed.s
        text == IF info.strip THEN Strip(lowered) ELSE lowered
    IN IF frobbed.k # "str" THEN BadValu
       ELSE IF info.regex # "None" /\ ~ReMatch(info.regex, text) THEN BadValu
       ELSE Return(StrV(text))

\* DataType.repr: the value as it is
DataTypeRepr(v) == v

BoolTrue == {<<"t", "r", "u", "e">>, <<"t">>, <<"y">>, <<"y", "e", "s">>, <<"1">>,
             <<"o", "n">>}
BoolFalse == {<<"f", "a", "l", "s", "e">>, <<"f">>, <<"n">>, <<"n", "o">>, <<"0">>,
              <<"o", "f", "f">>}

\* BoolType.norm: the text forms, else int(bool(valu))
BoolTypeNorm(valu) ==
    IF valu.k = "str"
    THEN IF Lower(valu.s) \in BoolTrue THEN Return(IntV(1))
         ELSE IF Lower(valu.s) \in BoolFalse THEN Return(IntV(0))
         ELSE BadValu
    ELSE Return(IntV(IF valu.k = "int" /\ valu.n # 0 THEN 1 ELSE 0))

\* BoolType.repr: repr(bool(valu))
BoolTypeRepr(n) ==
    StrV(IF n # 0 THEN <<"T", "r", "u", "e">> ELSE <<"F", "a", "l", "s", "e">>)

Rep(c, n) == [i \in 1..n |-> c]

RECURSIVE Without(_, _)
\* text.replace(c, '')
Without(text, c) ==
    IF text = <<>> THEN <<>>
    ELSE (IF Head(text) = c THEN <<>> ELSE <<Head(text)>>) \o Without(Tail(text), c)

\* isguid: guidre = ^[0-9a-f]{32}$
IsGuid(text) ==
    LET body == BeforeEnd(text)
    IN Len(body) = GuidLen /\ \A i \in DOMAIN body : body[i] \in Range(HexChars)

\* the values s_common.guid() can return
RandomGuids == {Rep("0", GuidLen), Rep("f", GuidLen)}

\* GuidType.norm of the builtin 'guid' type, which has no alias= and whose
\* tlib has no getTufoByProp; rnd is what s_common.guid() returns
GuidTypeNorm(valu, rnd) ==
    IF valu.k # "str" \/ Len(valu.s) < 1 THEN BadValu
    ELSE IF valu.s = <<"*">> THEN Return(StrV(rnd))
    ELSE IF valu.s[1] # "$"
    THEN LET retn == Without(Lower(valu.s), "-")
         IN IF IsGuid(retn) THEN Return(StrV(retn)) ELSE BadValu
    ELSE BadValu

\* s_time.parse of one time expression: a text of digits is a time, any
\* other text makes it raise
TimeParses(text) ==
    text # <<>> /\ \A i \in DOMAIN text : DigitOf(text[i]) < 10

\* TagType.norm: the text before the first '@', lowered, must match tagre;
\* the times after it are normalized first
TagTypeNorm(valu) ==
    IF valu.k # "str" THEN [err |-> "AttributeError", v |-> NoneV]
    ELSE LET ats == {i \in DOMAIN valu.s : valu.s[i] = "@"}
             at == IF ats = {} THEN Len(valu.s) + 1
                   ELSE CHOOSE i \in ats : \A j \in ats : i <= j
             strs == Split(SubSeq(valu.s, at + 1, Len(valu.s)), "-")
             retn == Lower(SubSeq(valu.s, 1, at - 1))
         IN IF ats # {} /\ \E i \in DOMAIN strs : ~TimeParses(strs[i])
            THEN [err |-> "Exception", v |-> NoneV]
            ELSE IF ~ReMatch("^([\\w]+\\.)*[\\w]+$", retn) THEN BadValu
            ELSE Return(StrV(retn))

ScalarNames == StrNames \cup {"int", "int:min", "int:max", "bool", "guid", "syn:tag"}

IntInfoOf(tname) ==
    IF tname = "int:min" THEN IntTypes.intmin
    ELSE IF tname = "int:max" THEN IntTypes.intmax ELSE IntTypes.int

\* getTypeNorm(name, valu) for the scalar types
ScalarNorm(tname, valu, rnd) ==
    IF tname \in StrNames THEN StrTypeNorm(StrTypes[tname], valu)
    ELSE IF tname \in {"int", "int:min", "int:max"}
    THEN IntTypeNorm(IntInfoOf(tname), valu, NoInt)
    ELSE IF tname = "bool" THEN BoolTypeNorm(valu)
    ELSE IF tname = "guid" THEN GuidTypeNorm(valu, rnd)
    ELSE TagTypeNorm(valu)

\* getTypeRepr(name, valu) for the scalar types
ScalarRepr(tname, v) ==
    IF tname \in {"int", "int:min", "int:max"}
    THEN StrV(IntTypeRepr(IntInfoOf(tname), v.n))
    ELSE IF tname = "bool" THEN BoolTypeRepr(v.n)
    ELSE DataTypeRepr(v)

\* the inputs of each kind of type
IntChars == {"-", "0", "1", "9", "x", "f"}
StrChars == {"A", "f", "g", " ", ":", "*", "NL"}
TagChars == {"A", "f", ".", "@", "-", "1", "NL"}

BoolTexts ==
    BoolTrue \cup BoolFalse
        \cup {<<"Y", "E", "S">>, <<"T", "r", "u", "e">>, <<"F", "a", "l", "s", "e">>,
              <<"O", "f", "f">>, <<"m", "a", "y", "b", "e">>, <<>>, <<"2">>}

GuidTexts ==
    {Rep(c, n) : c \in {"a", "A", "g", "0"}, n \in {GuidLen - 1, GuidLen, GuidLen + 1}}
        \cup {Rep("A", 8) \o <<"-">> \o Rep("b", GuidLen - 8),
              Rep("c", GuidLen) \o <<"NL">>, Rep("-", GuidLen),
              <<"*">>, <<"$", "a">>, <<>>}

SomeInts == {IntV(n) : n \in {0 - 1, 0, 1, 2, 255}} \cup {NoneV}

ScalarInputs(tname) ==
    SomeInts \cup
        {StrV(t) : t \in
            IF tname \in StrNames THEN Texts(StrChars, MaxDigits)
            ELSE IF tname \in {"int", "int:min", "int:max"}
            THEN Texts(IntChars, MaxDigits)
            ELSE IF tname = "bool" THEN BoolTexts
            ELSE IF tname = "guid" THEN GuidTexts
            ELSE Texts(TagChars, MaxDigits)}

NoScal == [phase |-> "none", tname |-> "None", valu |-> NoneV,
           r1 |-> BadValu, repr |-> NoneV, r2 |-> BadValu]

(***************************************************************************)
(* MultiFieldType and SeprType, one call after the other                   *)
(*                                                                         *)
(* An instance is declared with names= and types= and the separator '/';   *)
(* "own" is the name it is registered under.  self.fields is None (set is  *)
(* FALSE) or a list of (name, item), item being the name of the instance   *)
(* that getTypeInst returned, or "None".                                   *)
(***************************************************************************)
SeprName == "own"

NoFields == [set |-> FALSE, list |-> <<>>]

\* TypeLib.getTypeInst: self.types.get(name); the builtin scalar types and
\* the instance itself are registered
GetTypeInst(tlibtypes, name) ==
    IF name \in DOMAIN tlibtypes \/ name \in ScalarNames \/ name = SeprName
    THEN name ELSE "None"

\* MultiFieldType._get_fields for names= and types=
GetFields(tlibtypes, inst) ==
    IF inst.fields.set THEN [err |-> "None", inst |-> inst]
    ELSE IF Len(inst.names) # Len(inst.ftypes)
    THEN \* self.fields = [] was assigned before the counts are compared
         [err |-> "BadInfoValu",
          inst |-> [inst EXCEPT !.fields = [set |-> TRUE, list |-> <<>>]]]
    ELSE [err |-> "None",
          inst |-> [inst EXCEPT !.fields =
                       [set |-> TRUE,
                        list |-> [i \in 1..Len(inst.ftypes) |->
                                     [name |-> inst.names[i],
                                      item |-> GetTypeInst(tlibtypes,
                                                           inst.ftypes[i])]]]]]

RECURSIVE SplitMax(_, _, _)
\* text.split(sep, maxsplit): a negative maxsplit splits at every separator
SplitMax(text, sep, maxsplit) ==
    IF maxsplit = 0 \/ \A i \in DOMAIN text : text[i] # sep THEN <<text>>
    ELSE LET i == CHOOSE j \in DOMAIN text :
                      text[j] = sep /\ \A k \in 1..(j - 1) : text[k] # sep
         IN <<SubSeq(text, 1, i - 1)>>
            \o SplitMax(SubSeq(text, i + 1, Len(text)), sep, maxsplit - 1)

\* text.rsplit(sep, maxsplit) that splits from the left
RSplitFromLeft(text, sep, maxsplit) == SplitMax(text, sep, maxsplit)

\* text.rsplit(sep, maxsplit)
RSplitMax(text, sep, maxsplit) ==
    LET rev == SplitMax(Reverse(text), sep, maxsplit)
    IN Reverse([i \in DOMAIN rev |-> Reverse(rev[i])])

RECURSIVE Join(_, _)
\* sep.join(texts)
Join(texts, sep) ==
    IF texts = <<>> THEN <<>>
    ELSE IF Len(texts) = 1 THEN texts[1]
    ELSE texts[1] \o <<sep>> \o Join(Tail(texts), sep)

SeprResult(err, value, subs, inst) ==
    [err |-> err, value |-> value, subs |-> subs, inst |-> inst]

\* SeprType._split_str
SeprSplitStr(tlibtypes, inst, text) ==
    LET g == GetFields(tlibtypes, inst)
        n == Len(g.inst.fields.list)
        parts == IF inst.reverse THEN RSplitMax(text, "/", n - 1)
                 ELSE SplitMax(text, "/", n - 1)
    IN IF g.err # "None" THEN [err |-> g.err, inst |-> g.inst, parts |-> <<>>]
       ELSE IF Len(parts) # n
       THEN [err |-> "BadTypeValu", inst |-> g.inst, parts |-> <<>>]
       ELSE [err |-> "None", inst |-> g.inst,
             parts |-> [i \in DOMAIN parts |-> StrV(parts[i])]]

\* SeprType.norm from the loop on: zip(valu, self._get_fields()) stops at
\* the shorter of the two; the first field that raises ends the call
SeprZip(tlibtypes, inst, vals) ==
    LET g == GetFields(tlibtypes, inst)
        flds == g.inst.fields.list
        n == Min(Len(vals), Len(flds))
        one == [i \in 1..n |->
                   IF flds[i].item = SeprName THEN Return(vals[i])
                   ELSE IF flds[i].item = "None"
                   THEN \* None has no attribute norm
                        [err |-> "AttributeError", v |-> NoneV]
                   ELSE ScalarNorm(flds[i].item, vals[i], Rep("0", GuidLen))]
        reprs == [i \in 1..n |->
                     IF flds[i].item = SeprName THEN vals[i].s
                     ELSE ScalarRepr(flds[i].item, one[i].v).s]
        bad == {i \in 1..n : one[i].err # "None"}
        keys == {flds[i].name : i \in 1..n}
    IN IF g.err # "None" THEN SeprResult(g.err, <<>>, EmptyDict, g.inst)
       ELSE IF bad # {}
       THEN SeprResult(one[CHOOSE i \in bad : \A j \in bad : i <= j].err,
                       <<>>, EmptyDict, g.inst)
       ELSE SeprResult("None", Join(reprs, "/"),
                       [k \in keys |->
                           one[CHOOSE i \in 1..n :
                                   /\ flds[i].name = k
                                   /\ \A j \in 1..n : flds[j].name = k => j <= i].v],
                       g.inst)

\* SeprType.norm: valu is a text or a list
SeprTypeNorm(tlibtypes, inst, valu) ==
    IF valu.isstr
    THEN LET sp == SeprSplitStr(tlibtypes, inst, valu.text)
         IN IF sp.err # "None" THEN SeprResult(sp.err, <<>>, EmptyDict, sp.inst)
            ELSE SeprZip(tlibtypes, sp.inst, sp.parts)
    ELSE SeprZip(tlibtypes, inst, valu.list)

SeprFieldNames == <<"a", "b", "c", "d">>

\* 'nope' is the name of no registered type
SeprFieldTypes == {"str", "int", "nope", SeprName}

\* the instances: names a, b, ... and any types, as many or one more or less
SeprInsts ==
    {i \in [names : {SubSeq(SeprFieldNames, 1, n) : n \in 0..MaxFields},
            ftypes : Seqs(SeprFieldTypes, MaxFields), reverse : BOOLEAN,
            fields : {NoFields}] :
        Len(i.names) - Len(i.ftypes) \in {0 - 1, 0, 1}}

SeprText(text) == [isstr |-> TRUE, text |-> text, list |-> <<>>]
SeprList(list) == [isstr |-> FALSE, text |-> <<>>, list |-> list]

SeprInputs ==
    {SeprText(t) : t \in Texts({"/", "1"}, MaxSepText)}
        \cup {SeprList(l) : l \in Seqs({StrV(<<"0", "x", "1">>)}, MaxFields + 1)}

NoMf == [inst |-> [names |-> <<>>, ftypes |-> <<>>, reverse |-> FALSE,
                   fields |-> NoFields],
         ncall |-> 0, valu |-> SeprList(<<>>),
         res |-> SeprResult("None", <<>>, EmptyDict, 0)]

(***************************************************************************)
(* Calls that name a type                                                  *)
(***************************************************************************)
\* getTypeNorm, getTypeParse (parse is norm) and getTypeRepr of a scalar
\* type: reqDataType(name) first
TypeCall(tlibtypes, op, name, valu) ==
    IF GetTypeInst(tlibtypes, name) = "None" THEN "NoSuchType"
    ELSE IF op = "repr" THEN "None"
    ELSE ScalarNorm(name, valu, Rep("0", GuidLen)).err

NoReq == [kind |-> "none", tname |-> "None", missing |-> FALSE, err |-> "None",
          inst |-> 0, valu |-> 0]

\* the scenarios that are not running
AuxIdle ==
    sub = NoSub /\ ival = NoIval /\ scal = NoScal /\ mf = NoMf /\ req = NoReq

(***************************************************************************)
(* The registry as a state machine                                         *)
(***************************************************************************)
NoCall == [op |-> "none", name |-> "None", info |-> NoInfo, base |-> "None",
           ret |-> "None"]

EmptyTlib == [types |-> EmptyDict, typeinfo |-> EmptyDict, typetree |-> EmptyDict,
              pended |-> [k \in PendKeys |-> <<>>], subscache |-> EmptyDict]

\* TypeLib.__init__(load=False), with 'str' standing for the builtin types
InitTlib == AddType(EmptyTlib, "str",
                    [ctor |-> "StrType", subof |-> "None", regex |-> "None"]).tlib

SetTlib(t) ==
    /\ types' = t.types
    /\ typeinfo' = t.typeinfo
    /\ typetree' = t.typetree
    /\ pended' = t.pended
    /\ subscache' = t.subscache

Init ==
    /\ types = InitTlib.types
    /\ typeinfo = InitTlib.typeinfo
    /\ typetree = InitTlib.typetree
    /\ pended = InitTlib.pended
    /\ subscache = InitTlib.subscache
    /\ call = NoCall
    /\ ncalls = 0
    /\ batch = <<>>
    /\ comp = NoComp
    /\ xref = NoXref
    /\ sepr = NoSepr
    /\ AuxIdle

Register(name, info) ==
    /\ ncalls < MaxCalls
    /\ LET r == AddType(Tlib, name, info)
       IN /\ SetTlib(r.tlib)
          /\ call' = [op |-> "register", name |-> name, info |-> info,
                      base |-> "None", ret |-> r.ret]
    /\ ncalls' = ncalls + 1
    /\ UNCHANGED <<batch, comp, xref, sepr, auxvars>>

IsSubType(name, base) ==
    /\ ncalls < MaxCalls
    /\ LET r == IsSubTypeCall(Tlib, name, base)
       IN /\ SetTlib(r.tlib)
          /\ call' = [op |-> "isSubType", name |-> name, info |-> NoInfo,
                      base |-> base, ret |-> IF r.ret THEN "True" ELSE "False"]
    /\ ncalls' = ncalls + 1
    /\ UNCHANGED <<batch, comp, xref, sepr, auxvars>>

\* a definition names another type as its base; a query asks about another type
Next ==
    \/ \E name \in NewNames, info \in Infos :
          info.subof # name /\ Register(name, info)
    \/ \E name \in NewNames, base \in Names :
          base # name /\ IsSubType(name, base)

Spec == Init /\ [][Next]_vars

\* register calls alone, a definition that names itself as its base included
NextReg == \E name \in NewNames, info \in Infos : Register(name, info)

SpecReg == Init /\ [][NextReg]_vars

(***************************************************************************)
(* Bulk load into the constructed registry                                 *)
(***************************************************************************)
Entries == {e \in [name : NewNames, info : Infos] : e.info.subof # e.name}

Batches == UNION {[1..n -> Entries] : n \in 1..MaxBatch}

LoadBatch(modtups) ==
    /\ call.op = "none"
    /\ SetTlib(LoadDataModels(Tlib, modtups))
    /\ call' = [NoCall EXCEPT !.op = "load"]
    /\ batch' = modtups
    /\ ncalls' = ncalls + 1
    /\ UNCHANGED <<comp, xref, sepr, auxvars>>

NextLoad == \E modtups \in Batches : LoadBatch(modtups)

SpecLoad == Init /\ [][NextLoad]_vars

(***************************************************************************)
(* Bulk load of one batch in every order                                   *)
(***************************************************************************)
\* definitions with only ctor or only subof; regex 'ok' is one that compiles
OrderInfos ==
    {i \in [ctor : CtorIds, subof : Names \cup {"None"},
            regex : RegexVals \cup {"ok"}] :
        (i.ctor = "None") # (i.subof = "None")}

\* batches of definitions with pairwise distinct names
OrderBatches ==
    {b \in UNION {[1..n -> [name : NewNames, info : OrderInfos]] :
                     n \in 1..(MaxBatch + 1)} :
        \A i, j \in DOMAIN b : b[i].name = b[j].name => i = j}

NextOrder == \E modtups \in OrderBatches : LoadBatch(modtups)

SpecOrder == Init /\ [][NextOrder]_vars

(***************************************************************************)
(* Normalizing with a composite type                                       *)
(***************************************************************************)
\* a composite type and two input lists that differ in the order of the pairs
InitComp ==
    /\ types = InitTlib.types
    /\ typeinfo = InitTlib.typeinfo
    /\ typetree = InitTlib.typetree
    /\ pended = InitTlib.pended
    /\ subscache = InitTlib.subscache
    /\ call = NoCall
    /\ ncalls = 0
    /\ batch = <<>>
    /\ xref = NoXref
    /\ sepr = NoSepr
    /\ AuxIdle
    /\ \E c \in CompTypes, vs \in ValSeqs, ps \in PairSeqs :
          \E qs \in Shuffles(ps) :
              comp = [NoComp EXCEPT !.phase = "input", !.ctype = c, !.vals = vs,
                                    !.pairs1 = ps, !.pairs2 = qs]

\* the two lists are normalized, each call with its own random guid
CompNorm(rnd1, rnd2) ==
    /\ comp.phase = "input"
    /\ comp' = [comp EXCEPT
                   !.phase = "done",
                   !.r1 = CompNormList(comp.ctype, comp.vals \o comp.pairs1, rnd1),
                   !.r2 = CompNormList(comp.ctype, comp.vals \o comp.pairs2, rnd2)]
    /\ UNCHANGED <<tlibvars, xref, sepr, auxvars>>

NextComp == \E rnd1 \in FreshGuids, rnd2 \in FreshGuids : CompNorm(rnd1, rnd2)

SpecComp == InitComp /\ [][NextComp]_vars

(***************************************************************************)
(* Normalizing with a cross-reference type                                 *)
(***************************************************************************)
InitXref ==
    /\ types = InitTlib.types
    /\ typeinfo = InitTlib.typeinfo
    /\ typetree = InitTlib.typetree
    /\ pended = InitTlib.pended
    /\ subscache = InitTlib.subscache
    /\ call = NoCall
    /\ ncalls = 0
    /\ batch = <<>>
    /\ comp = NoComp
    /\ sepr = NoSepr
    /\ AuxIdle
    /\ \E sorc \in XrefSources, valu \in XrefInputs :
          xref = [NoXref EXCEPT !.phase = "input", !.sorc = sorc, !.valu = valu]

XrefNorm ==
    /\ xref.phase = "input"
    /\ xref' = [xref EXCEPT !.phase = "done",
                            !.res = XrefNormValu(types, xref.sorc, xref.valu)]
    /\ UNCHANGED <<tlibvars, comp, sepr, auxvars>>

NextXref == XrefNorm

SpecXref == InitXref /\ [][NextXref]_vars

(***************************************************************************)
(* Threads normalizing with one SeprType                                   *)
(***************************************************************************)
InitSepr ==
    /\ types = InitTlib.types
    /\ typeinfo = InitTlib.typeinfo
    /\ typetree = InitTlib.typetree
    /\ pended = InitTlib.pended
    /\ subscache = InitTlib.subscache
    /\ call = NoCall
    /\ ncalls = 0
    /\ batch = <<>>
    /\ comp = NoComp
    /\ xref = NoXref
    /\ AuxIdle
    /\ \E flen \in 1..MaxFields, isstr \in [Threads -> BOOLEAN] :
          sepr = [flen |-> flen, fields |-> 0,
                  lists |-> [r \in Threads |-> <<>>],
                  th |-> [t \in Threads |->
                            [NoThread EXCEPT !.pc = "norm", !.isstr = isstr[t]]]]

SeprOnly == UNCHANGED <<tlibvars, comp, xref, auxvars>>

SetThread(t, rec) == sepr' = [sepr EXCEPT !.th[t] = rec] /\ SeprOnly

\* SeprType.norm: a text is split first, then the parts are zipped
SeprNorm(t) ==
    LET me == sepr.th[t]
    IN /\ me.pc = "norm"
       /\ SetThread(t, [me EXCEPT !.pc = "gf_check",
                                  !.cont = IF me.isstr THEN "split" ELSE "zip"])

\* _get_fields: if self.fields is None
GetFieldsCheck(t) ==
    LET me == sepr.th[t]
    IN /\ me.pc = "gf_check"
       /\ SetThread(t, [me EXCEPT !.pc = IF sepr.fields = 0 THEN "gf_init"
                                         ELSE "gf_ret"])

\* _get_fields: self.fields = [] (a new list object), then the names and
\* types are split, self.flen is set and the counts are compared
GetFieldsInit(t) ==
    LET me == sepr.th[t]
    IN /\ me.pc = "gf_init"
       /\ sepr' = [sepr EXCEPT !.fields = t, !.lists[t] = <<>>,
                               !.th[t] = [me EXCEPT !.pc = "gf_loop", !.i = 1]]
       /\ SeprOnly

\* _get_fields: self.fields.append((fnames[i], item)) for i in range(flen)
GetFieldsAppend(t) ==
    LET me == sepr.th[t]
    IN /\ me.pc = "gf_loop"
       /\ IF me.i <= sepr.flen
          THEN /\ sepr' = [sepr EXCEPT !.lists[sepr.fields] = Append(@, me.i),
                                       !.th[t] = [me EXCEPT !.i = me.i + 1]]
               /\ SeprOnly
          ELSE SetThread(t, [me EXCEPT !.pc = "gf_ret"])

\* _get_fields: return self.fields
GetFieldsReturn(t) ==
    LET me == sepr.th[t]
    IN /\ me.pc = "gf_ret"
       /\ SetThread(t, [me EXCEPT !.pc = me.cont, !.ref = sepr.fields])

\* _split_str: parts = text.split(self.sepr, len(fields) - 1)
SplitStr(t) ==
    LET me == sepr.th[t]
    IN /\ me.pc = "split"
       /\ SetThread(t, [me EXCEPT
              !.pc = "split_chk",
              !.nparts = SplitCount(sepr.flen - 1, Len(sepr.lists[me.ref]) - 1)])

\* _split_str: if len(parts) != len(fields): BadTypeValu
SplitCheck(t) ==
    LET me == sepr.th[t]
    IN /\ me.pc = "split_chk"
       /\ IF me.nparts # Len(sepr.lists[me.ref])
          THEN SetThread(t, [me EXCEPT !.pc = "done", !.err = "BadTypeValu"])
          ELSE SetThread(t, [me EXCEPT !.pc = "gf_check", !.cont = "zip"])

\* norm: one turn of the loop over zip(valu, fields), the list is read as
\* it is at that moment
ZipStep(t) ==
    LET me == sepr.th[t]
        nvals == IF me.isstr THEN me.nparts ELSE sepr.flen
        flds == sepr.lists[me.ref]
    IN /\ me.pc = "zip"
       /\ IF me.idx < nvals /\ me.idx < Len(flds)
          THEN SetThread(t, [me EXCEPT !.idx = me.idx + 1,
                                !.out = Append(@, <<me.idx + 1, flds[me.idx + 1]>>)])
          ELSE SetThread(t, [me EXCEPT !.pc = "done"])

NextSepr ==
    \E t \in Threads :
        \/ SeprNorm(t)
        \/ GetFieldsCheck(t)
        \/ GetFieldsInit(t)
        \/ GetFieldsAppend(t)
        \/ GetFieldsReturn(t)
        \/ SplitStr(t)
        \/ SplitCheck(t)
        \/ ZipStep(t)

SpecSepr == InitSepr /\ [][NextSepr]_vars

(***************************************************************************)
(* isSubType calls beside addType calls                                    *)
(***************************************************************************)
SubNames == {"a", "b"}

InitSub ==
    /\ types = InitTlib.types
    /\ typeinfo = InitTlib.typeinfo
    /\ typetree = InitTlib.typetree
    /\ pended = InitTlib.pended
    /\ subscache = InitTlib.subscache
    /\ call = NoCall
    /\ ncalls = 0
    /\ batch = <<>>
    /\ comp = NoComp
    /\ xref = NoXref
    /\ sepr = NoSepr
    /\ sub = NoSub
    /\ ival = NoIval
    /\ scal = NoScal
    /\ mf = NoMf
    /\ req = NoReq

SubOnly ==
    UNCHANGED <<pended, call, batch, comp, xref, sepr, ival, scal, mf, req>>

\* addType(name, subof=base) of a new name with a resolved base, up to
\* self._bumpBasePend(name): typeinfo and types get their entry
AddTypeBegin(name, base) ==
    /\ sub.w.pc = "idle"
    /\ name \notin DOMAIN types
    /\ base \in DOMAIN types
    /\ pended[name] = <<>>
    /\ LET info == [ctor |-> "None", subof |-> base, regex |-> "None"]
       IN /\ typeinfo' = Put(typeinfo, name, info)
          /\ types' = Put(types, name,
                          NewItem(types[base].cls, ExtendInfo(types[base], info)))
    /\ sub' = [sub EXCEPT
                  !.w = [pc |-> "tree", name |-> name, subof |-> base],
                  !.rd = [t \in Threads |-> [sub.rd[t] EXCEPT !.quiet = FALSE]]]
    /\ UNCHANGED <<typetree, subscache, ncalls>>
    /\ SubOnly

\* addType: self.typetree[name] = subof
AddTypeTree ==
    /\ sub.w.pc = "tree"
    /\ typetree' = Put(typetree, sub.w.name, sub.w.subof)
    /\ sub' = [sub EXCEPT !.w.pc = "clear"]
    /\ UNCHANGED <<types, typeinfo, subscache, ncalls>>
    /\ SubOnly

\* addType: self.subscache.clear(); return True
AddTypeClear ==
    /\ sub.w.pc = "clear"
    /\ subscache' = EmptyDict
    /\ sub' = [sub EXCEPT !.w = NoWriter]
    /\ UNCHANGED <<types, typeinfo, typetree, ncalls>>
    /\ SubOnly

SetReader(t, rec) ==
    /\ sub' = [sub EXCEPT !.rd[t] = rec]
    /\ UNCHANGED <<types, typeinfo, typetree>>
    /\ SubOnly

\* a thread calls isSubType(name, base); the call is quiet when no addType
\* is running at that moment (and none starts before it returns)
SubCall(t, name, base) ==
    /\ sub.rd[t].pc = "idle"
    /\ ncalls < MaxCalls
    /\ ncalls' = ncalls + 1
    /\ SetReader(t, [NoReader EXCEPT !.pc = "get", !.name = name, !.base = base,
                                     !.quiet = (sub.w.pc = "idle")])
    /\ UNCHANGED subscache

\* isSubType: ret = self.subscache.get(key); if ret is None, getTypeBases
\* begins with done = [name]
SubGet(t) ==
    LET me == sub.rd[t]
        key == <<me.name, me.base>>
    IN /\ me.pc = "get"
       /\ IF key \in DOMAIN subscache
          THEN SetReader(t, [me EXCEPT !.pc = "ret", !.ret = subscache[key]])
          ELSE SetReader(t, [me EXCEPT !.pc = "walk", !.todo = me.name,
                                      !.done = <<me.name>>])
       /\ UNCHANGED <<subscache, ncalls>>

\* getTypeBases: todo = self.typetree.get(todo); done.append(todo) unless None
SubWalk(t) ==
    LET me == sub.rd[t]
    IN /\ me.pc = "walk"
       /\ IF me.todo \in DOMAIN typetree
          THEN SetReader(t, [me EXCEPT !.todo = typetree[me.todo],
                                      !.done = Append(@, typetree[me.todo])])
          ELSE SetReader(t, [me EXCEPT !.pc = "store"])
       /\ UNCHANGED <<subscache, ncalls>>

\* isSubType: ret = base in done; self.subscache[key] = ret
SubStore(t) ==
    LET me == sub.rd[t]
        ret == me.base \in Range(me.done)
    IN /\ me.pc = "store"
       /\ subscache' = Put(subscache, <<me.name, me.base>>, ret)
       /\ SetReader(t, [me EXCEPT !.pc = "ret", !.ret = ret])
       /\ UNCHANGED ncalls

\* isSubType: return ret
SubReturn(t) ==
    LET me == sub.rd[t]
    IN /\ me.pc = "ret"
       /\ SetReader(t, [me EXCEPT !.pc = "idle"])
       /\ UNCHANGED <<subscache, ncalls>>

NextSub ==
    \/ \E name \in SubNames, base \in Names : AddTypeBegin(name, base)
    \/ AddTypeTree
    \/ AddTypeClear
    \/ \E t \in Threads :
          \/ \E name \in SubNames, base \in Names :
                base # name /\ SubCall(t, name, base)
          \/ SubGet(t)
          \/ SubWalk(t)
          \/ SubStore(t)
          \/ SubReturn(t)

SpecSub == InitSub /\ [][NextSub]_vars

(***************************************************************************)
(* Repeated writes of an integer property                                  *)
(***************************************************************************)
Idle ==
    /\ types = InitTlib.types
    /\ typeinfo = InitTlib.typeinfo
    /\ typetree = InitTlib.typetree
    /\ pended = InitTlib.pended
    /\ subscache = InitTlib.subscache
    /\ call = NoCall
    /\ ncalls = 0
    /\ batch = <<>>
    /\ comp = NoComp
    /\ xref = NoXref
    /\ sepr = NoSepr

\* a property of type int:min or int:max that was never written
InitInt ==
    /\ Idle
    /\ sub = NoSub
    /\ scal = NoScal
    /\ mf = NoMf
    /\ req = NoReq
    /\ \E tname \in {"intmin", "intmax"} : ival = [NoIval EXCEPT !.tname = tname]

\* one write: the value is normalized with the stored value as oldval and
\* the result is stored; a value that norm refuses is not stored
IntWrite(valu) ==
    /\ ival.tname # "None"
    /\ Len(ival.writes) < MaxWrites
    /\ LET r == IntTypeNorm(IntTypes[ival.tname], valu, ival.stored)
       IN ival' = [ival EXCEPT
                      !.stored = IF r.err = "None" THEN <<r.v.n>> ELSE @,
                      !.writes = IF r.err = "None"
                                 THEN Append(@, IntTypeNorm(IntInfo, valu, NoInt).v.n)
                                 ELSE @,
                      !.err = r.err]
    /\ UNCHANGED <<tlibvars, comp, xref, sepr, sub, scal, mf, req>>

NextInt == \E valu \in WriteInputs : IntWrite(valu)

SpecInt == InitInt /\ [][NextInt]_vars

(***************************************************************************)
(* Normalizing, representing and normalizing again with a scalar type      *)
(***************************************************************************)
InitScalar ==
    /\ Idle
    /\ sub = NoSub
    /\ ival = NoIval
    /\ mf = NoMf
    /\ req = NoReq
    /\ \E tname \in ScalarNames :
          \E valu \in ScalarInputs(tname) :
              scal = [NoScal EXCEPT !.phase = "input", !.tname = tname,
                                    !.valu = valu]

\* getTypeNorm, then getTypeRepr of its value and getTypeNorm of that text
RoundTrip(rnd1, rnd2) ==
    /\ scal.phase = "input"
    /\ LET r1 == ScalarNorm(scal.tname, scal.valu, rnd1)
           text == IF r1.err = "None" THEN ScalarRepr(scal.tname, r1.v) ELSE NoneV
       IN scal' = [scal EXCEPT
                      !.phase = "done", !.r1 = r1, !.repr = text,
                      !.r2 = IF r1.err = "None"
                             THEN ScalarNorm(scal.tname, text, rnd2) ELSE BadValu]
    /\ UNCHANGED <<tlibvars, comp, xref, sepr, sub, ival, mf, req>>

NextScalar == \E rnd1 \in RandomGuids, rnd2 \in RandomGuids : RoundTrip(rnd1, rnd2)

SpecScalar == InitScalar /\ [][NextScalar]_vars

(***************************************************************************)
(* Normalizing with one SeprType, one call after the other                 *)
(***************************************************************************)
InitMf ==
    /\ Idle
    /\ sub = NoSub
    /\ ival = NoIval
    /\ scal = NoScal
    /\ req = NoReq
    /\ \E inst \in SeprInsts : mf = [NoMf EXCEPT !.inst = inst]

\* getTypeNorm(name, valu) on the instance: what it returns or raises, and
\* the instance as the call leaves it
MfNorm(valu) ==
    /\ mf.ncall < MaxNorms
    /\ LET r == SeprTypeNorm(types, mf.inst, valu)
       IN mf' = [inst |-> r.inst, ncall |-> mf.ncall + 1, valu |-> valu,
                 res |-> [r EXCEPT !.inst = 0]]
    /\ UNCHANGED <<tlibvars, comp, xref, sepr, sub, ival, scal, req>>

NextMf == \E valu \in SeprInputs : MfNorm(valu)

SpecMf == InitMf /\ [][NextMf]_vars

(***************************************************************************)
(* One call that names a type, or whose type has fields that name one      *)
(***************************************************************************)
InitReq ==
    /\ Idle
    /\ AuxIdle

ReqOnly == UNCHANGED <<tlibvars, comp, xref, sepr, sub, ival, scal, mf>>

\* getTypeNorm(name, valu), getTypeRepr(name, valu), getTypeParse(name, text)
ReqByName(op, name, valu) ==
    /\ req.kind = "none"
    /\ op = "parse" => valu.k = "str"
    /\ req' = [kind |-> op, tname |-> name,
               missing |-> GetTypeInst(types, name) = "None",
               err |-> TypeCall(types, op, name, valu), inst |-> 0, valu |-> valu]
    /\ ReqOnly

\* getTypeNorm of a separator-joined type whose names= and types= agree
ReqSepr(inst, valu) ==
    /\ req.kind = "none"
    /\ Len(inst.names) = Len(inst.ftypes)
    /\ req' = [kind |-> "sepr", tname |-> SeprName,
               missing |->
                   /\ IF valu.isstr
                      THEN Len(Split(valu.text, "/")) >= Len(inst.ftypes)
                      ELSE Len(valu.list) = Len(inst.ftypes)
                   /\ \E i \in DOMAIN inst.ftypes :
                         /\ GetTypeInst(types, inst.ftypes[i]) = "None"
                         /\ \A j \in 1..(i - 1) :
                               inst.ftypes[j] \in {"str", SeprName},
               err |-> SeprTypeNorm(types, inst, valu).err,
               inst |-> inst, valu |-> valu]
    /\ ReqOnly

\* getTypeNorm of a composite type with one required field of type tname
ReqComp(tname, valu, rnd) ==
    /\ req.kind = "none"
    /\ req' = [kind |-> "comp", tname |-> tname,
               missing |-> tname \notin FieldTypes /\ Len(valu) = 1,
               err |-> CompNormList([fields |-> <<[name |-> 1, tname |-> tname]>>,
                                     optfields |-> <<>>], valu, rnd).err,
               inst |-> 0, valu |-> valu]
    /\ ReqOnly

\* getTypeNorm of a cross-reference type with source='name,str', for a list
\* of three parts; the second part names the type of the third
ReqXref(valu) ==
    /\ req.kind = "none"
    /\ ~valu.isstr
    /\ Len(valu.list) = 3
    /\ req' = [kind |-> "xref", tname |-> "xref",
               missing |-> valu.list[2] # <<"str">>,
               err |-> XrefNormValu(types, <<"str">>, valu).err,
               inst |-> 0, valu |-> valu]
    /\ ReqOnly

NextReq ==
    \/ \E op \in {"norm", "repr", "parse"}, name \in ScalarNames \cup {"nope"} :
          \E valu \in ScalarInputs("bool") : ReqByName(op, name, valu)
    \/ \E inst \in SeprInsts, valu \in SeprInputs : ReqSepr(inst, valu)
    \/ \E tname \in FieldTypes \cup {"nope"}, valu \in ValSeqs, rnd \in FreshGuids :
          ReqComp(tname, valu, rnd)
    \/ \E valu \in XrefInputs : ReqXref(valu)

SpecReq == InitReq /\ [][NextReq]_vars

(***************************************************************************)
(* Properties of the registry                                              *)
(***************************************************************************)
QueuedDefs(pend) ==
    UNION {{pend[k][i] : i \in DOMAIN pend[k]} : k \in PendKeys}

IsRegister(c) == c.op = "register"

\* the call deferred a subof-only definition whose base was missing
DeferredNow ==
    /\ IsRegister(call')
    /\ call'.info.ctor = "None"
    /\ call'.info.subof # "None"
    /\ call'.name \notin DOMAIN types
    /\ call'.info.subof \notin DOMAIN types

NewlyResolved == (DOMAIN types') \ (DOMAIN types)

\* C1 as stated: register(child, subof=base) with base missing returns false
\* and leaves child out of types; a successful register resolves, inside the
\* same call, every definition that was queued under a name it resolves
\* (recursively), and leaves nothing queued under a resolved name.
C1_AsStated ==
    [][/\ DeferredNow =>
            /\ call'.ret = "False"
            /\ call'.name \notin DOMAIN types'
       /\ (IsRegister(call') /\ call'.ret = "True") =>
            \A m \in NewlyResolved :
                /\ pended'[m] = <<>>
                /\ \A i \in DOMAIN pended[m] :
                       pended[m][i].name \in DOMAIN types']_vars

\* C1 amended: as C1, but a queued definition is resolved inside the call
\* only when its own construction succeeds; one whose extend throws is
\* dropped (it is neither resolved nor queued again under the resolved name).
C1_DeferredResolution ==
    [][/\ DeferredNow =>
            /\ call'.ret = "False"
            /\ call'.name \notin DOMAIN types'
            /\ [name |-> call'.name, info |-> call'.info]
                   \in QueuedDefs(pended')
       /\ (IsRegister(call') /\ call'.ret = "True") =>
            \A m \in NewlyResolved :
                /\ pended'[m] = <<>>
                /\ \A i \in DOMAIN pended[m] :
                       \/ pended[m][i].name \in DOMAIN types'
                       \/ pended[m][i].info.regex = "bad"]_vars

\* a register call that resolved a base, its child and its grandchild
C1_Witness ==
    /\ IsRegister(call)
    /\ call.ret = "True"
    /\ \E x \in DOMAIN typetree, y \in DOMAIN typetree :
          /\ typetree[x] = call.name
          /\ typetree[y] = x

\* C2: a definition whose constructor throws is dropped: after the call it
\* is neither in types nor queued in pending under any key.
C2_CtorFailureDropped ==
    (/\ IsRegister(call)
     /\ call.info.ctor # "None"
     /\ CtorThrows(call.info)
     /\ call.ret # "DupTypeName")
    => /\ call.name \notin DOMAIN types
       /\ [name |-> call.name, info |-> call.info] \notin QueuedDefs(pended)

\* C3: no type name is at the same time resolved in types and queued in a
\* pending list.
C3_PendingNeverResolved ==
    \A d \in QueuedDefs(pended) : d.name \notin DOMAIN types

\* C4: every cached answer, and the answer isSubType just returned, is the
\* answer of a fresh walk of the current inheritance tree.
C4_CacheAgreesWithTree ==
    /\ \A key \in DOMAIN subscache :
          subscache[key] = (key[2] \in Range(GetTypeBases(typetree, key[1])))
    /\ call.op = "isSubType" =>
          (call.ret = "True") =
              (call.base \in Range(GetTypeBases(typetree, call.name)))

\* isSubType answered true for a proper ancestor
C4_Witness ==
    /\ call.op = "isSubType"
    /\ call.ret = "True"
    /\ call.name # call.base
    /\ <<call.name, call.base>> \in DOMAIN subscache

\* C5: register of a resolved name fails with DupTypeName and changes
\* nothing; an instance stored in types is never replaced.
C5_DuplicateRejected ==
    [][/\ (IsRegister(call') /\ call'.name \in DOMAIN types) =>
            /\ call'.ret = "DupTypeName"
            /\ UNCHANGED <<types, typeinfo, typetree, pended, subscache>>
       /\ \A n \in DOMAIN types :
            n \in DOMAIN types' /\ types'[n] = types[n]]_vars

\* a register call was refused as a duplicate
C5_Witness ==
    /\ IsRegister(call)
    /\ call.ret = "DupTypeName"
    /\ call.name \in DOMAIN types

\* C6: a register call that carries neither ctor nor subof, or both, fails
\* with a configuration error and adds nothing to types, parentOf or pending.
C6_ExactlyOneOfCtorSubof ==
    [][(/\ IsRegister(call')
        /\ call'.name \notin DOMAIN types
        /\ (call'.info.ctor = "None") = (call'.info.subof = "None"))
       => /\ call'.ret = "Exception"
          /\ UNCHANGED <<types, typetree, pended>>]_vars

\* the keys of a definition
InfoKeys == {"ctor", "subof", "regex"}

\* the chain getTypeBases reports, from name towards the root
ChainOf(name) == Reverse(GetTypeBases(typetree, name))

\* the definitions on the chain that set the key, nearest first
SettersOf(name, prop) ==
    SelectSeq(ChainOf(name),
              LAMBDA x : x \in DOMAIN typeinfo /\ typeinfo[x][prop] # "None")

\* s is t, or the beginning of t
IsPrefix(s, t) == Len(s) <= Len(t) /\ \A i \in DOMAIN s : s[i] = t[i]

\* C18: for every registered name and every key, getTypeInfo returns the
\* value of the nearest definition that sets the key on the chain that
\* getTypeBases reports, taken from the name towards the root, and the
\* default when none sets it; it reads no definition off that chain.
C18_InfoFollowsBases ==
    \A name \in DOMAIN types : \A prop \in InfoKeys :
        LET r == GetTypeInfo(Tlib, name, prop, "defval")
            set == SettersOf(name, prop)
        IN /\ r.ret = (IF set = <<>> THEN "defval" ELSE typeinfo[set[1]][prop])
           /\ IsPrefix(r.seen, ChainOf(name))

\* a type with no parent of its own in typetree
IsRoot(name) == name \notin DOMAIN typetree

\* the names the walk of getTypeBases visits, at most fuel of them
RECURSIVE WalkWithin(_, _)
WalkWithin(todo, fuel) ==
    IF fuel = 0 \/ todo \notin DOMAIN typetree THEN <<todo>>
    ELSE <<todo>> \o WalkWithin(typetree[todo], fuel - 1)

\* the walk from name comes to a root before it meets a name again
Terminates(name) ==
    LET w == WalkWithin(name, Cardinality(DOMAIN typetree) + 1)
    IN /\ IsRoot(w[Len(w)])
       /\ \A i, j \in DOMAIN w : w[i] = w[j] => i = j

\* C19: in every state that register calls reach, typetree has no cycle and
\* both ends of every edge are registered types, so getTypeBases(name) ends
\* and returns a list without duplicates, from the root down to name: its
\* last element is name and its first a type with no parent.
C19_TreeIsAForest ==
    /\ \A name \in DOMAIN typetree :
          name \in DOMAIN types /\ typetree[name] \in DOMAIN types
    /\ \A name \in Names :
          /\ Terminates(name)
          /\ LET bases == GetTypeBases(typetree, name)
             IN /\ bases[Len(bases)] = name
                /\ IsRoot(bases[1])
                /\ \A i, j \in DOMAIN bases : bases[i] = bases[j] => i = j
                /\ \A i \in 1..(Len(bases) - 1) :
                      typetree[bases[i + 1]] = bases[i]

\* a chain of three types: a root, its child and its grandchild
C19_Witness ==
    \E name \in DOMAIN types :
        /\ Len(GetTypeBases(typetree, name)) = 3
        /\ IsRegister(call)
        /\ call.ret = "True"

\* C21: after every completed register call, whether it resolved the type,
\* deferred it or failed (constructor error, error of the parent's extend,
\* duplicate name), the names with an entry in typeinfo are the names
\* resolved in types.
C21_InfoOnlyForResolved ==
    IsRegister(call) => DOMAIN typeinfo = DOMAIN types

RECURSIVE LoadRets(_, _)
\* what addType returned or raised for each entry of a batch, in order
LoadRets(t, modtups) ==
    IF modtups = <<>> THEN <<>>
    ELSE LET r == AddType(t, Head(modtups).name, Head(modtups).info)
         IN <<r.ret>> \o LoadRets(r.tlib, Tail(modtups))

\* entry i of the batch failed: it raised, or its constructor threw
FailedEntry(rets, modtups, i) ==
    \/ rets[i] \in {"DupTypeName", "Exception", "ExtendError"}
    \/ modtups[i].info.ctor # "None" /\ CtorThrows(modtups[i].info)

RECURSIVE SelectIdx(_, _, _)
SelectIdx(s, keep, i) ==
    IF i > Len(s) THEN <<>>
    ELSE (IF i \in keep THEN <<s[i]>> ELSE <<>>) \o SelectIdx(s, keep, i + 1)

\* C7: after loadDataModels every valid entry of the batch is resolved or
\* deferred exactly as it is when the failing entries are left out of the
\* batch.
C7_FailingEntriesHaveNoEffect ==
    call.op = "load" =>
        LET rets == LoadRets(InitTlib, batch)
            valid == {i \in DOMAIN batch : ~FailedEntry(rets, batch, i)}
            alone == LoadDataModels(InitTlib, SelectIdx(batch, valid, 1))
        IN \A i \in valid :
              LET n == batch[i].name
              IN /\ (n \in DOMAIN types) = (n \in DOMAIN alone.types)
                 /\ n \in DOMAIN types => types[n] = alone.types[n]
                 /\ (batch[i] \in QueuedDefs(pended))
                        = (batch[i] \in QueuedDefs(alone.pended))

\* the names of the entries are pairwise distinct
DistinctNames(modtups) ==
    \A i, j \in DOMAIN modtups : modtups[i].name = modtups[j].name => i = j

\* every entry carries only ctor or only subof
OneOfCtorSubof(modtups) ==
    \A i \in DOMAIN modtups :
        (modtups[i].info.ctor = "None") # (modtups[i].info.subof = "None")

\* the same resolved names with the same options, the same typetree and the
\* same set of pended definitions under the same names
SameOutcome(t, u) ==
    /\ t.types = u.types
    /\ t.typetree = u.typetree
    /\ \A k \in PendKeys : Range(t.pended[k]) = Range(u.pended[k])

\* C20: for a batch of definitions with pairwise distinct names, each with
\* only ctor or only subof, every ordering of the batch given to
\* loadDataModels ends with the same resolved types and inherited options,
\* the same typetree edges and the same set of pended definitions.
C20_OrderIndependent ==
    (call.op = "load" /\ DistinctNames(batch) /\ OneOfCtorSubof(batch)) =>
        \A modtups \in Shuffles(batch) :
            SameOutcome(LoadDataModels(InitTlib, modtups), Tlib)

\* a grandchild was loaded before its parent and that before the root of the
\* three; it inherited the regex of the root through the retries
C20_Witness ==
    /\ call.op = "load"
    /\ Len(batch) = 3
    /\ batch[1].info.subof = batch[2].name
    /\ batch[2].info.subof = batch[3].name
    /\ batch[3].info.regex = "ok"
    /\ batch[1].info.regex = "None"
    /\ batch[1].name \in DOMAIN types
    /\ types[batch[1].name].info.regex = "ok"
    /\ typetree[batch[1].name] = batch[2].name

(***************************************************************************)
(* Properties of CompType                                                  *)
(***************************************************************************)
\* the input has exactly the required values, followed by the pairs
CompValid == Len(comp.vals) = Len(comp.ctype.fields)

DistinctKeys(ps) ==
    \A i \in DOMAIN ps, j \in DOMAIN ps : ps[i].key = ps[j].key => i = j

\* a guid field is given the wildcard '*', which normalizes to a random guid
WildcardUsed ==
    \/ \E i \in DOMAIN comp.vals, j \in DOMAIN comp.ctype.fields :
          i = j /\ comp.ctype.fields[j].tname = "guid" /\ comp.vals[i].v = "*"
    \/ \E i \in DOMAIN comp.pairs1, j \in DOMAIN comp.ctype.optfields :
          /\ comp.ctype.optfields[j].name = comp.pairs1[i].key
          /\ comp.ctype.optfields[j].tname = "guid"
          /\ comp.pairs1[i].v = "*"

\* C8 as stated: two valid inputs with the same required values and the
\* same optional pairs in a different order normalize to the same
\* identifier and the same sub-properties (inputs that ask for a random guid
\* with '*' are left aside).
C8_AsStated ==
    (comp.phase = "done" /\ CompValid /\ ~WildcardUsed) => comp.r1 = comp.r2

\* C8 amended: the two inputs normalize to the same identifier and the same
\* sub-properties when no optional key is given twice and no guid field is
\* given the wildcard '*'.
C8_CompDeterminism ==
    (/\ comp.phase = "done"
     /\ CompValid
     /\ DistinctKeys(comp.pairs1)
     /\ ~WildcardUsed)
    => comp.r1 = comp.r2

\* two optional fields were given in two different orders and normalized
C8_Witness ==
    /\ comp.phase = "done"
    /\ CompValid
    /\ DistinctKeys(comp.pairs1)
    /\ ~WildcardUsed
    /\ comp.pairs1 # comp.pairs2
    /\ comp.r1.err = "None"
    /\ Len(comp.r1.iden) = Len(comp.vals) + 2

(***************************************************************************)
(* Properties of XrefType                                                  *)
(***************************************************************************)
\* the parts the input is taken to have: the list, or the split text
XrefPartsOf(valu) == IF valu.isstr THEN Split(valu.text, "|") ELSE valu.list

XrefBareGuid(valu) ==
    /\ valu.isstr
    /\ TextLen(valu.text) = GuidLen
    /\ \A i \in DOMAIN valu.text : valu.text[i] # "|"

\* C9: normalize of a cross-reference fails with BadValue whenever the input
\* (a list, or a text that is not a bare guid, once split on '|') does not
\* have exactly 3 parts.
C9_XrefNeedsThreeParts ==
    (/\ xref.phase = "done"
     /\ ~XrefBareGuid(xref.valu)
     /\ Len(XrefPartsOf(xref.valu)) # 3)
    => xref.res.err = "BadTypeValu"

(***************************************************************************)
(* Properties of SeprType                                                  *)
(***************************************************************************)
\* C10: every concurrent normalize call on the same separator-joined type
\* returns what it returns when run alone: one part per declared field, no
\* error.
C10_ConcurrentNormSafe ==
    \A t \in Threads :
        sepr.th[t].pc = "done" =>
            /\ sepr.th[t].err = "None"
            /\ sepr.th[t].out = SeprAlone(sepr.flen)

(***************************************************************************)
(* Properties of isSubType beside addType                                  *)
(***************************************************************************)
TreeAnswer(name, base) == base \in Range(GetTypeBases(typetree, name))

\* C11: an isSubType call that starts when no register call is running (and
\* returns before another one starts) returns the answer of the current
\* inheritance tree, and when no call is running every cached answer is the
\* answer of the current inheritance tree.
C11_StaleButSafe ==
    /\ \A t \in Threads :
          (sub.rd[t].pc = "ret" /\ sub.rd[t].quiet) =>
              sub.rd[t].ret = TreeAnswer(sub.rd[t].name, sub.rd[t].base)
    /\ (sub.w.pc = "idle" /\ \A t \in Threads : sub.rd[t].pc = "idle") =>
          \A key \in DOMAIN subscache :
              subscache[key] = TreeAnswer(key[1], key[2])

(***************************************************************************)
(* Properties of the scalar types                                          *)
(***************************************************************************)
\* the integers written so far, as norm without oldval gives them
Written == Range(ival.writes)

\* C12: after any sequence of writes in which each norm call gets the stored
\* value as oldval, the value stored under int:min is the minimum of the
\* values written so far, and under int:max the maximum.
C12_MinMaxAccumulates ==
    (ival.tname # "None" /\ ival.writes # <<>>) =>
        /\ ival.stored # NoInt
        /\ ival.stored[1] \in Written
        /\ ival.tname = "intmin" => \A n \in Written : ival.stored[1] <= n
        /\ ival.tname = "intmax" => \A n \in Written : ival.stored[1] >= n

\* a smaller, a larger and a hexadecimal value were written after the first
C12_Witness ==
    /\ Len(ival.writes) = MaxWrites
    /\ \E i \in DOMAIN ival.writes, j \in DOMAIN ival.writes :
          /\ 1 < i /\ 1 < j
          /\ ival.writes[i] < ival.writes[1]
          /\ ival.writes[j] > ival.writes[1]
    /\ \E i \in DOMAIN ival.writes : ival.writes[i] > 9

\* C13: for every scalar type and every input that norm accepts, the
\* representation of the normalized value normalizes to that same value.
C13_RoundTripStable ==
    (scal.phase = "done" /\ scal.r1.err = "None") =>
        /\ scal.r2.err = "None"
        /\ scal.r2.v = scal.r1.v

\* an integer given in hexadecimal was represented in decimal and read back
C13_Witness ==
    /\ scal.phase = "done"
    /\ scal.tname = "int"
    /\ scal.valu.k = "str"
    /\ scal.r1.err = "None"
    /\ scal.r1.v.n > 9
    /\ scal.repr.s # scal.valu.s
    /\ scal.r2.v = scal.r1.v

(***************************************************************************)
(* Properties of SeprType, one call after the other                        *)
(***************************************************************************)
Called == mf.ncall > 0

\* the counts of names= and types= differ
Mismatched == Len(mf.inst.names) # Len(mf.inst.ftypes)

\* C15: every normalize call on a multi-field type whose names= and types=
\* differ in number, the first and every later one, for a text or a list,
\* fails with the configuration error and returns no value.
C15_MismatchAlwaysFails ==
    (Called /\ Mismatched) => mf.res.err = "BadInfoValu"

\* the parts of the text the call was given
SepCount == Len(Split(mf.valu.text, "/")) - 1

NoSep(text) == \A i \in DOMAIN text : text[i] # "/"

\* every field takes its part as it is (a 'str' field, or a field of the
\* type itself, line 534): the sub-properties are the parts
PlainFields ==
    \A i \in DOMAIN mf.inst.ftypes : mf.inst.ftypes[i] \in {"str", SeprName}

\* every field's type is a registered one
Registered ==
    \A i \in DOMAIN mf.inst.ftypes : mf.inst.ftypes[i] # "nope"

PartsOf(res) == [i \in 1..Len(mf.inst.names) |-> res.subs[mf.inst.names[i]].s]

\* C16: for n >= 1 declared fields and a text with k separators, normalize
\* fails with BadValue when k < n - 1; when k >= n - 1 the text is split
\* into n parts at the first n - 1 separators (the last part is the
\* remainder), or with reverse at the last n - 1 (the first part is the
\* remainder).
C16_SplitAtFirstOrLast ==
    (/\ Called
     /\ mf.valu.isstr
     /\ ~Mismatched
     /\ Len(mf.inst.ftypes) >= 1)
    => LET n == Len(mf.inst.ftypes)
       IN /\ SepCount < n - 1 => mf.res.err = "BadTypeValu"
          /\ (SepCount >= n - 1 /\ PlainFields) =>
                /\ mf.res.err = "None"
                /\ DOMAIN mf.res.subs = Range(mf.inst.names)
                /\ Join(PartsOf(mf.res), "/") = mf.valu.text
                /\ \A i \in 1..n :
                      \/ NoSep(PartsOf(mf.res)[i])
                      \/ i = (IF mf.inst.reverse THEN 1 ELSE n)

\* a text with more separators than fields was split, the remainder kept
C16_Witness ==
    /\ mf.ncall = 1
    /\ mf.valu.isstr
    /\ ~Mismatched
    /\ PlainFields
    /\ mf.inst.reverse
    /\ Len(mf.inst.ftypes) = 2
    /\ SepCount > 1
    /\ mf.res.err = "None"
    /\ ~NoSep(PartsOf(mf.res)[1])
    /\ PartsOf(mf.res)[1] # PartsOf(mf.res)[2]

\* the input has fewer or more parts than there are declared fields: a list
\* of another length, or a text with too few separators
WrongPartCount ==
    IF mf.valu.isstr THEN SepCount + 1 < Len(mf.inst.ftypes)
    ELSE Len(mf.valu.list) # Len(mf.inst.ftypes)

\* C17: when normalize succeeds, for a text or a list, the sub-properties
\* have a key for every declared field name and the value joins one
\* represented part per declared field; an input whose number of parts
\* differs from the number of declared fields fails with BadValue instead
\* of being truncated.
C17_OnePartPerField ==
    (Called /\ ~Mismatched /\ Registered) =>
        /\ mf.res.err = "None" =>
              /\ DOMAIN mf.res.subs = Range(mf.inst.names)
              /\ PlainFields => mf.res.value = Join(PartsOf(mf.res), "/")
        /\ WrongPartCount => mf.res.err = "BadTypeValu"

(***************************************************************************)
(* Properties of the calls that name a type                                *)
(***************************************************************************)
\* C14: a call that needs a type name that is not registered (the name
\* given to normalize, represent or parseText, or the declared type of a
\* field of a separator-joined, composite or cross-reference type) fails
\* with NoSuchType and leaves the registry as it was.
C14_NoSuchTypeOnly ==
    (req.kind # "none" /\ req.missing) =>
        /\ req.err = "NoSuchType"
        /\ Tlib = InitTlib

TypeOK ==
    /\ DOMAIN types \subseteq Names
    /\ DOMAIN typetree \subseteq DOMAIN types
====
